---- MODULE Spec2Model ----
(***************************************************************************)
(* CriptLator: the duplex interpretation session of CriptLatorWidget.tsx   *)
(* and the adapter GeminiLiveService (geminiLiveService.ts, the variant    *)
(* with onOpen/onClose that the widget uses).                              *)
(*                                                                         *)
(* One step of the model is one task of the browser's event loop: a click, *)
(* a socket event, a permission prompt being answered, an audio callback,  *)
(* together with every promise continuation (microtask) it makes runnable. *)
(* Time is counted in units of 500 ms.                                     *)
(***************************************************************************)
EXTENDS Integers, Sequences, FiniteSets, TLC

MaxRuns == 3      \* startSession invocations in one behaviour
MaxChunks == 3    \* audio chunks scheduled in one behaviour
MaxClock == 3     \* last value of an output context's currentTime
MaxSends == 3     \* sendAudio/sendText calls of the adapter's driver, and
                  \* sends chained on one pending sessionPromise
MaxDisc == 2      \* disconnect() calls suspended on one sessionPromise
MaxFrame == 3     \* samples in one audio frame given to the codec

Runs == 1..MaxRuns
Roles == {"Speaker", "Listener"}
Durations == {1, 2}
ErrorMessages == {"", "reset"}
Texts == {"", "Hola"}
Max(a, b) == IF a >= b THEN a ELSE b

VARIABLES
  role, isActive, isConnecting, error, inputCaption, outputCaption,
  serviceRef, outputAudioCtxRef, inputAudioCtxRef, sourcesRef,
  nextStartTimeRef, activeStreamsRef,
  nRuns, run, svc, clock, nItems, live, openOut, openIn, proc,
  orphanTracks, nSends, last, sched, epoch, codec, isSamplePlaying

vars == <<role, isActive, isConnecting, error, inputCaption, outputCaption,
          serviceRef, outputAudioCtxRef, inputAudioCtxRef, sourcesRef,
          nextStartTimeRef, activeStreamsRef,
          nRuns, run, svc, clock, nItems, live, openOut, openIn, proc,
          orphanTracks, nSends, last, sched, epoch, codec, isSamplePlaying>>

(***************************************************************************)
(* The state as one record, so that a handler is a function on states and  *)
(* handlers compose the way the code calls them.                           *)
(*   run[r]   the r-th startSession invocation: the role its closures      *)
(*            captured and the await it is suspended at                    *)
(*   svc[r]   the GeminiLiveService that invocation created: its           *)
(*            sessionPromise, its socket, the disconnect() calls suspended *)
(*            on the pending promise (nDisc), the sends chained on it      *)
(*            (thens) and the payload transmitted last (lastSent, history) *)
(*   clock    currentTime of the context in outputAudioCtxRef              *)
(*   sourcesRef   the AudioBufferSourceNodes of the active set: the      *)
(*            context each was created on and its scheduled interval       *)
(*   nItems   AudioBufferSourceNodes started so far; they are numbered     *)
(*   live     the nodes of the audio graph that were started and have      *)
(*            neither ended nor been stopped, on contexts still open       *)
(*   openOut, openIn   audio contexts created and not closed               *)
(*   proc[c]  ScriptProcessorNodes attached to input context c             *)
(*   orphanTracks   the startSession invocations whose screen-capture      *)
(*            stream has live tracks and is in no ref (its only reference  *)
(*            was the local `sys`)                                         *)
(*   nSends   sendAudio/sendText calls made by a driver of the adapter     *)
(*   last     what the last step did (history)                             *)
(*   sched    the item scheduled last since the last flush (history)       *)
(*   epoch    what began the current playback epoch (history)              *)
(*   isSamplePlaying   the sample is playing; its interval timer runs       *)
(*            exactly then (both are set and cleared together)             *)
(*   codec    a frame of samples on its way through the PCM codec: the     *)
(*            stage it has reached and its value at every stage passed     *)
(***************************************************************************)
Cur ==
  [role |-> role, isActive |-> isActive, isConnecting |-> isConnecting,
   error |-> error, inputCaption |-> inputCaption,
   outputCaption |-> outputCaption, serviceRef |-> serviceRef,
   outCtx |-> outputAudioCtxRef, inCtx |-> inputAudioCtxRef,
   sources |-> sourcesRef, nextStart |-> nextStartTimeRef,
   streams |-> activeStreamsRef, nRuns |-> nRuns, run |-> run, svc |-> svc,
   clock |-> clock, nItems |-> nItems, live |-> live,
   openOut |-> openOut, openIn |-> openIn,
   proc |-> proc, orphans |-> orphanTracks, nSends |-> nSends,
   last |-> last, sched |-> sched, epoch |-> epoch, codec |-> codec,
   isSamplePlaying |-> isSamplePlaying]

\* A service whose socket is closed and that serviceRef no longer holds is
\* unreachable, and so is the startSession invocation that made it once it
\* has returned or awaits a promise that will never settle: both are
\* garbage, kept as one fixed value.
Garbage(S, r) ==
  /\ r # S.serviceRef
  /\ S.svc[r].sock = "closed"
  /\ S.run[r].pc \in {"connect", "done"}
Collected(T) ==
  LET S == CHOOSE x \in {T} : TRUE   \* T, evaluated once
  IN  [S EXCEPT
         !.run = [r \in DOMAIN S.run |->
                    IF Garbage(S, r) THEN [role |-> "Speaker", pc |-> "done"]
                    ELSE S.run[r]],
         !.svc = [r \in DOMAIN S.svc |->
                    IF Garbage(S, r)
                    THEN [promise |-> "null", sock |-> "closed", nDisc |-> 0,
                          thens |-> <<>>, lastSent |-> <<>>]
                    ELSE S.svc[r]]]

Apply(T) ==
  \E S \in {Collected(T)} :
  /\ role' = S.role
  /\ isActive' = S.isActive
  /\ isConnecting' = S.isConnecting
  /\ error' = S.error
  /\ inputCaption' = S.inputCaption
  /\ outputCaption' = S.outputCaption
  /\ serviceRef' = S.serviceRef
  /\ outputAudioCtxRef' = S.outCtx
  /\ inputAudioCtxRef' = S.inCtx
  /\ sourcesRef' = S.sources
  /\ nextStartTimeRef' = S.nextStart
  /\ activeStreamsRef' = S.streams
  /\ nRuns' = S.nRuns
  /\ run' = S.run
  /\ svc' = S.svc
  /\ clock' = S.clock
  /\ nItems' = S.nItems
  /\ live' = S.live
  /\ openOut' = S.openOut
  /\ openIn' = S.openIn
  /\ proc' = S.proc
  /\ orphanTracks' = S.orphans
  /\ nSends' = S.nSends
  /\ last' = S.last
  /\ sched' = S.sched
  /\ epoch' = S.epoch
  /\ codec' = S.codec
  /\ isSamplePlaying' = S.isSamplePlaying

\* An inbound message of the remote session: which of the four parts of
\* serverContent it carries (audio: the chunk's duration, 0 for none).
NoMessage == [inT |-> FALSE, outT |-> FALSE, audio |-> 0, intr |-> FALSE]
Messages ==
  [inT : BOOLEAN, outT : BOOLEAN, audio : {0} \cup Durations,
   intr : BOOLEAN] \ {NoMessage}

\* What a step did: the message it handled, how many times it called
\* stopSession, flushed the scheduler (and how many nodes the flushes took
\* from the active set), requested a capture source, created an input
\* context, called sendAudio and left a rejected disconnect() promise
\* unhandled, and the chunk it scheduled (enq: empty, or one record of the
\* node's interval, the clock and nextStartTimeRef the handler read, and the
\* item scheduled before it); the texts it called sendText with, the
\* payloads it transmitted to a remote session (sent), the rejections of
\* sends it left unhandled, and the rows it inserted into the relay.
NoEvent ==
  [msg |-> NoMessage, stops |-> 0, flushes |-> 0, flushed |-> 0,
   acquire |-> 0, newInCtx |-> 0, sendAudio |-> 0, discRej |-> 0,
   enq |-> <<>>, sendText |-> <<>>, sent |-> <<>>, sendRej |-> 0,
   published |-> 0, teardown |-> <<>>]

Begin(S) == [S EXCEPT !.last = NoEvent]

\* No frame is in the codec.
NoFrame == [stage |-> "none", frame |-> <<>>, pcm16 |-> <<>>,
            base64 |-> <<>>, out |-> <<>>]

InitWidget(firstRole) ==
  /\ role = firstRole
  /\ isActive = FALSE
  /\ isConnecting = FALSE
  /\ error = "null"
  /\ inputCaption = ""
  /\ outputCaption = ""
  /\ serviceRef = 0
  /\ outputAudioCtxRef = 0
  /\ inputAudioCtxRef = 0
  /\ sourcesRef = {}
  /\ nextStartTimeRef = 0
  /\ activeStreamsRef = {}
  /\ nRuns = 0
  /\ run = [r \in Runs |-> [role |-> "Speaker", pc |-> "idle"]]
  /\ svc = [r \in Runs |-> [promise |-> "null", sock |-> "none", nDisc |-> 0,
                           thens |-> <<>>, lastSent |-> <<>>]]
  /\ clock = 0
  /\ nItems = 0
  /\ live = {}
  /\ openOut = {}
  /\ openIn = {}
  /\ proc = [c \in Runs |-> 0]
  /\ orphanTracks = {}
  /\ nSends = 0
  /\ last = NoEvent
  /\ sched = <<>>
  /\ epoch = "init"
  /\ isSamplePlaying = FALSE

InitAs(firstRole) == InitWidget(firstRole) /\ codec = NoFrame

(***************************************************************************)
(* GeminiLiveService                                                       *)
(***************************************************************************)
\* session.close(): the socket starts its closing handshake; the close
\* event (onclose) follows in a later task.
sessionClose(sock) == IF sock = "open" THEN "closing" ELSE sock

\* connect(): sessionPromise = ai.live.connect(...), a pending promise on a
\* connecting socket.
connect(S, s) ==
  [S EXCEPT !.svc[s] = [promise |-> "pending", sock |-> "connecting",
                        nDisc |-> 0, thens |-> <<>>, lastSent |-> <<>>]]

\* async disconnect(): nothing without a sessionPromise; otherwise it awaits
\* the promise. Resolved: session.close() and sessionPromise = null, in the
\* microtask that follows. Pending: the call stays suspended (nDisc).
\* Rejected: the await throws and the promise disconnect() returned rejects
\* with nobody handling it; sessionPromise keeps the rejected promise.
disconnect(S, s) ==
  CASE S.svc[s].promise = "null" -> S
    [] S.svc[s].promise = "pending" ->
         [S EXCEPT !.svc[s].nDisc = @ + 1]
    [] S.svc[s].promise = "resolved" ->
         [S EXCEPT !.svc[s].sock = sessionClose(@),
                   !.svc[s].promise = "null",
                   !.last.teardown = Append(@, "close")]
    [] S.svc[s].promise = "rejected" ->
         [S EXCEPT !.last.discRej = @ + 1]

\* The disconnect() calls suspended on the promise of s run when it settles.
resumeDisconnects(S, s) ==
  IF S.svc[s].nDisc = 0 THEN S
  ELSE IF S.svc[s].promise = "resolved"
       THEN [S EXCEPT !.svc[s].sock = sessionClose(@),
                      !.svc[s].promise = "null",
                      !.svc[s].nDisc = 0,
                      !.last.teardown = Append(@, "close")]
       ELSE [S EXCEPT !.last.discRej = @ + S.svc[s].nDisc,
                      !.svc[s].nDisc = 0]

\* session.sendRealtimeInput(p): the payload goes out on an open socket; a
\* socket that is closing or closed discards it. `at` is the state of the
\* socket when the send was called (history).
transmit(S, s, p, at) ==
  IF S.svc[s].sock = "open"
  THEN [S EXCEPT !.last.sent = Append(@, [svc |-> s, p |-> p, at |-> at,
                                          prev |-> S.svc[s].lastSent]),
                 !.svc[s].lastSent = <<p>>]
  ELSE S

\* if (this.sessionPromise) this.sessionPromise.then(session => send): no
\* promise, nothing; a pending promise, the send is chained on it (late: a
\* disconnect() is chained before it, so session.close() will have run);
\* a resolved promise, the send runs in the microtask that follows; a
\* rejected promise, the promise then() returns rejects, unhandled.
send(S, s, p) ==
  CASE S.svc[s].promise = "null" -> S
    [] S.svc[s].promise = "pending" ->
         [S EXCEPT !.svc[s].thens =
            Append(@, [p |-> p, late |-> S.svc[s].nDisc > 0,
                       at |-> S.svc[s].sock])]
    [] S.svc[s].promise = "resolved" -> transmit(S, s, p, S.svc[s].sock)
    [] S.svc[s].promise = "rejected" -> [S EXCEPT !.last.sendRej = @ + 1]

sendAudio(S, s, x) ==
  send([S EXCEPT !.last.sendAudio = @ + 1], s,
       [kind |-> "audio", data |-> x])

sendText(S, s, x) ==
  send([S EXCEPT !.last.sendText = Append(@, x)], s,
       [kind |-> "text", data |-> <<"Interpret: ", x>>])

Reverse(q) == [i \in 1..Len(q) |-> q[Len(q) + 1 - i]]

\* The sends chained on the promise of s, run when it settles, in the order
\* they were chained.
RECURSIVE runThens(_, _, _)
runThens(S, s, q) ==
  IF q = <<>> THEN S
  ELSE LET e == Head(q)
           A == IF S.svc[s].promise = "rejected"
                THEN [S EXCEPT !.last.sendRej = @ + 1]
                ELSE IF e.late THEN S
                ELSE transmit(S, s, e.p, e.at)
       IN  runThens(A, s, Tail(q))

\* The chained sends run last chained, first run.
runSends_Reversed(S, s) ==
  [runThens(S, s, Reverse(S.svc[s].thens)) EXCEPT !.svc[s].thens = <<>>]

runSends(S, s) ==
  [runThens(S, s, S.svc[s].thens) EXCEPT !.svc[s].thens = <<>>]

(***************************************************************************)
(* The PCM codec. A Float32 sample is counted in units of 2^-15, the step  *)
(* of 16-bit quantization: the integer j stands for the sample j / 32768,  *)
(* so that 1.0 is Int16Divisor. A byte is 0..255, a base64 character is    *)
(* its index in the alphabet, 0..63, and Pad for '='.                      *)
(***************************************************************************)
Int16Scale == 32767      \* 0x7FFF
Int16Divisor == 32768    \* 32768.0
Pad == 64

Min(a, b) == IF a <= b THEN a ELSE b

\* The integer part of n / d, d > 0: what storing a Number in a typed
\* array of integers keeps of it.
Trunc(n, d) == IF n >= 0 THEN n \div d ELSE -((-n) \div d)

\* ToInt16: an integer stored in an Int16Array is taken modulo 2^16.
ToInt16(v) == ((v + 32768) % 65536) - 32768

\* A conversion that scales the sample as it is.
toPcm16_NoClamp(x) == ToInt16(Trunc(x * Int16Scale, Int16Divisor))

\* pcm16[i] = Math.max(-1, Math.min(1, inputData[i])) * 0x7FFF
toPcm16(x) ==
  ToInt16(Trunc(Max(-Int16Divisor, Min(Int16Divisor, x)) * Int16Scale,
                Int16Divisor))

\* new Uint8Array(pcm16.buffer): two bytes per sample, the low byte first.
pcmBytes(pcm16) ==
  [i \in 1..(2 * Len(pcm16)) |->
     LET u == pcm16[(i + 1) \div 2] % 65536
     IN  IF i % 2 = 1 THEN u % 256 ELSE u \div 256]

\* encode: the bytes as a binary string, then btoa: three bytes make four
\* characters, and the last group is padded.
encode(bytes) ==
  LET n == Len(bytes)
      byte(i) == IF i <= n THEN bytes[i] ELSE 0
      char(k) ==
        LET g == 3 * ((k - 1) \div 4)
            b1 == byte(g + 1)
            b2 == byte(g + 2)
            b3 == byte(g + 3)
        IN  CASE (k - 1) % 4 = 0 -> b1 \div 4
              [] (k - 1) % 4 = 1 -> (b1 % 4) * 16 + b2 \div 16
              [] (k - 1) % 4 = 2 -> IF g + 2 > n THEN Pad
                                    ELSE (b2 % 16) * 4 + b3 \div 64
              [] OTHER -> IF g + 3 > n THEN Pad ELSE b3 % 64
  IN  [k \in 1..(4 * ((n + 2) \div 3)) |-> char(k)]

\* decode: atob, then the character codes of the binary string.
decode(base64) ==
  LET m == Len(base64)
      pads == Cardinality({k \in 1..m : base64[k] = Pad})
      sextet(k) == IF base64[k] = Pad THEN 0 ELSE base64[k]
      byte(i) ==
        LET g == 4 * ((i - 1) \div 3)
            c1 == sextet(g + 1)
            c2 == sextet(g + 2)
            c3 == sextet(g + 3)
            c4 == sextet(g + 4)
        IN  CASE (i - 1) % 3 = 0 -> c1 * 4 + c2 \div 16
              [] (i - 1) % 3 = 1 -> (c2 % 16) * 16 + c3 \div 4
              [] OTHER -> (c3 % 4) * 64 + c4
  IN  [i \in 1..(3 * (m \div 4) - pads) |-> byte(i)]

\* A decodeAudioData that views the bytes as unsigned 16-bit integers.
decodeAudioData_Unsigned(data, numChannels) ==
  LET dataInt16 == [k \in 1..(Len(data) \div 2) |->
                      data[2 * k - 1] + 256 * data[2 * k]]
      frameCount == Len(dataInt16) \div numChannels
  IN  [channel \in 1..numChannels |->
         [i \in 1..frameCount |->
            dataInt16[(i - 1) * numChannels + channel]]]

\* decodeAudioData: the bytes viewed as an Int16Array, de-interleaved into
\* numChannels channels of frameCount samples, each divided by 32768.0 (in
\* units of 1 / Int16Divisor the quotient is the 16-bit value itself).
decodeAudioData(data, numChannels) ==
  LET dataInt16 == [k \in 1..(Len(data) \div 2) |->
                      ToInt16(data[2 * k - 1] + 256 * data[2 * k])]
      frameCount == Len(dataInt16) \div numChannels
  IN  [channel \in 1..numChannels |->
         [i \in 1..frameCount |->
            dataInt16[(i - 1) * numChannels + channel]]]

\* The payload onaudioprocess computes from a block: lines 280-285.
pcmPayload(inputData) ==
  encode(pcmBytes([i \in 1..Len(inputData) |-> toPcm16(inputData[i])]))

(***************************************************************************)
(* Playback scheduler: sourcesRef, nextStartTimeRef, the output clock      *)
(***************************************************************************)
\* A flush that forgets s.stop(): the set is cleared, the nodes play on.
stopAllSources_ClearOnly(S) ==
  [S EXCEPT !.sources = {},
            !.sched = <<>>,
            !.last.flushes = @ + 1,
            !.last.flushed = @ + Cardinality(S.sources)]

\* sourcesRef.forEach(s => s.stop()); sourcesRef.clear()
stopAllSources(S) ==
  [S EXCEPT !.live = @ \ S.sources,
            !.sources = {},
            !.sched = <<>>,
            !.last.flushes = @ + 1,
            !.last.flushed = @ + Cardinality(S.sources)]

\* An onInterrupted that returns early when nothing is in the active set.
onInterrupted_SkipWhenEmpty(S) ==
  IF S.sources = {} THEN S
  ELSE LET F == [stopAllSources(S) EXCEPT !.epoch = "interrupt"]
       IN  IF F.outCtx # 0 THEN [F EXCEPT !.nextStart = F.clock] ELSE F

\* onInterrupted: flush, then re-base the schedule to the current clock when
\* an output context exists.
onInterrupted(S) ==
  LET F == [stopAllSources(S) EXCEPT !.epoch = "interrupt"]
  IN  IF F.outCtx # 0 THEN [F EXCEPT !.nextStart = F.clock] ELSE F

\* The node scheduleChunk starts at `start`, and the history of it.
started(S, start, dur, next) ==
  LET node == [id |-> S.nItems + 1, ctx |-> S.outCtx, start |-> start,
               end |-> start + dur]
  IN  [S EXCEPT
         !.nextStart = next,
         !.nItems = @ + 1,
         !.live = @ \cup {node},
         !.sources = @ \cup {node},
         !.sched = <<[start |-> node.start, end |-> node.end]>>,
         !.last.enq = <<[start |-> node.start, end |-> node.end,
                         dur |-> dur, at |-> S.clock, next |-> S.nextStart,
                         before |-> S.sched]>>]

\* Scheduling at the clock alone, without the Math.max of line 223.
scheduleChunk_AtClock(S, dur) ==
  started(S, S.clock, dur, S.clock + dur)

\* Taking the larger of the two, but never adding the duration of line 225.
scheduleChunk_NoAdvance(S, dur) ==
  LET start == Max(S.nextStart, S.clock)
  IN  started(S, start, dur, start)

\* Adding the duration to the clock instead of the start time.
scheduleChunk_EndFromClock(S, dur) ==
  LET start == Max(S.nextStart, S.clock)
  IN  started(S, start, dur, S.clock + dur)

\* onAudioData after the decode: lines 219-228.
scheduleChunk(S, dur) ==
  LET start == Max(S.nextStart, S.clock)
  IN  started(S, start, dur, start + dur)

\* An onAudioData without the test of line 217 for an output context.
audioAccepted_NoContextTest(S, r) == S.run[r].role # "Speaker"

\* An onAudioData without the role test of line 215.
audioAccepted_AnyRole(S, r) == S.outCtx # 0

\* onAudioData before the decode: a Speaker's callbacks drop the chunk, and
\* so does a missing output context. TRUE when the chunk goes on to decode.
audioAccepted(S, r) == S.run[r].role # "Speaker" /\ S.outCtx # 0

(***************************************************************************)
(* stopSession                                                             *)
(***************************************************************************)
\* stopSession, lines 132-152. The setters of lines 133-135 are queued: the
\* flags change, and the relay effect unsubscribes, at the render that
\* follows the handler. disconnect() is called on line 136, but it is async
\* and its first statement awaits sessionPromise, so that its session.close()
\* runs when the synchronous rest of stopSession (flush, lines 137-139;
\* release of streams and contexts, lines 140-151) is done. last.teardown
\* lists the effects in the order in which they take place.
stopSession(S) ==
  LET A == [S EXCEPT !.isActive = FALSE, !.isConnecting = FALSE,
                     !.isSamplePlaying = FALSE,
                     !.last.stops = @ + 1]
      C == [stopAllSources(A) EXCEPT !.epoch = "stop",
                                     !.last.teardown = Append(@, "flush")]
      D == [C EXCEPT !.nextStart = 0,
                     !.live = {n \in @ : n.ctx # C.outCtx},
                     !.streams = {},
                     !.openIn = @ \ {C.inCtx},
                     !.inCtx = 0,
                     !.openOut = @ \ {C.outCtx},
                     !.outCtx = 0,
                     !.clock = 0,
                     !.last.teardown = @ \o <<"release", "idle">>]
  IN  IF D.serviceRef # 0 THEN disconnect(D, D.serviceRef) ELSE D

(***************************************************************************)
(* startSession and the callbacks it hands to connect()                    *)
(***************************************************************************)
\* Lines 188-198, up to the await of connect().
startSession(S) ==
  LET r == S.nRuns + 1
      A == [S EXCEPT !.isConnecting = TRUE, !.error = "null",
                     !.inputCaption = "", !.outputCaption = "",
                     !.nRuns = r, !.serviceRef = r,
                     !.run[r] = [role |-> S.role, pc |-> "connect"]]
  IN  connect(A, r)

\* An onOpen that sets the active flag and leaves the connecting flag.
onOpen_KeepConnecting(S) == [S EXCEPT !.isActive = TRUE]

onOpen(S) == [S EXCEPT !.isConnecting = FALSE, !.isActive = TRUE]

\* Lines 243-259: the output context, and for a Speaker the input context
\* and the microphone request.
afterConnect(S, r) ==
  LET A == [S EXCEPT !.outCtx = r, !.openOut = @ \cup {r}, !.clock = 0]
  IN  IF S.run[r].role = "Speaker"
      THEN [A EXCEPT !.inCtx = r, !.openIn = @ \cup {r},
                     !.last.newInCtx = @ + 1, !.last.acquire = @ + 1,
                     !.run[r].pc = "mic"]
      ELSE [A EXCEPT !.run[r].pc = "done"]

\* Lines 288-291.
startCatch(S, r, message) ==
  stopSession([S EXCEPT !.error = message, !.run[r].pc = "done"])

\* Lines 259-265: the microphone answer, then the system-audio request. A
\* missing input context makes createMediaStreamSource throw inside the
\* inner try, after the stream was pushed.
afterMic(S, r, granted) ==
  LET A == IF granted THEN [S EXCEPT !.streams = @ \cup {<<r, "mic">>}]
           ELSE S
  IN  [A EXCEPT !.last.acquire = @ + 1, !.run[r].pc = "sys"]

\* A system-audio answer whose refusal is not caught by the inner try.
afterSys_DeclineFatal(S, r, answer) ==
  IF answer = "declined"
  THEN startCatch(S, r, "NotAllowedError")
  ELSE LET A == CASE answer = "audio" ->
                       [S EXCEPT !.streams = @ \cup {<<r, "sys">>}]
                  [] OTHER -> [S EXCEPT !.orphans = @ \cup {r}]
       IN  IF A.inCtx = 0
           THEN startCatch(A, r, "TypeError")
           ELSE [A EXCEPT !.proc[A.inCtx] = @ + 1, !.run[r].pc = "done"]

\* Lines 265-287: the system-audio answer, then the processor; without an
\* input context createScriptProcessor throws into the outer catch. A
\* capture with an audio track is pushed and its video tracks are stopped;
\* one without an audio track is neither pushed nor stopped.
afterSys(S, r, answer) ==
  LET A == CASE answer = "audio" ->
                  [S EXCEPT !.streams = @ \cup {<<r, "sys">>}]
             [] answer = "noaudio" ->
                  [S EXCEPT !.orphans = @ \cup {r}]
             [] OTHER -> S
  IN  IF A.inCtx = 0
      THEN startCatch(A, r, "TypeError")
      ELSE [A EXCEPT !.proc[A.inCtx] = @ + 1, !.run[r].pc = "done"]

\* The caption, and for a Speaker's callbacks the insert into the relay
\* (with the relay configured).
onInputTranscription(S, r) ==
  LET A == [S EXCEPT !.inputCaption = "t"]
  IN  IF S.run[r].role = "Speaker"
      THEN [A EXCEPT !.last.published = @ + 1]
      ELSE A
onOutputTranscription(S, r) == [S EXCEPT !.outputCaption = "t"]
\* An onError that records the cause and leaves the session as it is.
onError_NoStop(S, message) ==
  [S EXCEPT !.error = IF message = "" THEN "Network error" ELSE message]

\* setError(err.message || 'Network error'); stopSession()
onError(S, message) ==
  stopSession([S EXCEPT !.error = IF message = "" THEN "Network error"
                                  ELSE message])
onClose(S) == stopSession(S)

\* An onmessage whose chunk is decoded by a task of its own: the message's
\* task ends with the chunk still undecoded and nothing scheduled.
onmessage_DecodeInLaterTask(S, r, m) ==
  LET A == IF m.inT THEN onInputTranscription(S, r) ELSE S
      B == IF m.outT THEN onOutputTranscription(A, r) ELSE A
  IN  IF m.intr THEN onInterrupted(B) ELSE B

\* onmessage of the service: the four parts in the order of lines 59-70,
\* then the microtask in which an accepted chunk's decode has finished.
onmessage(S, r, m) ==
  LET A == IF m.inT THEN onInputTranscription(S, r) ELSE S
      B == IF m.outT THEN onOutputTranscription(A, r) ELSE A
      decoding == m.audio # 0 /\ audioAccepted(B, r)
      C == IF m.intr THEN onInterrupted(B) ELSE B
  IN  IF decoding THEN scheduleChunk(C, m.audio) ELSE C

(***************************************************************************)
(* Actions                                                                 *)
(***************************************************************************)
\* The role switcher: both buttons are disabled while isActive.
SetRole(x) ==
  /\ ~isActive
  /\ x # role
  /\ Apply([Begin(Cur) EXCEPT !.role = x])

\* The centre button: disabled while isConnecting, startSession unless
\* isActive.
ClickStart ==
  /\ ~isConnecting /\ ~isActive
  /\ nRuns < MaxRuns
  /\ Apply(startSession(Begin(Cur)))

ClickStop ==
  /\ ~isConnecting /\ isActive
  /\ Apply(stopSession(Begin(Cur)))

\* The socket of s opens: onopen, then the promise of connect() resolves:
\* startSession continues, then the chained sends and the suspended
\* disconnect() calls.
HandshakeOpen(s) ==
  /\ svc[s].sock = "connecting" /\ svc[s].promise = "pending"
  /\ LET A == onOpen(Begin(Cur))
         B == [A EXCEPT !.svc[s].sock = "open", !.svc[s].promise = "resolved"]
     IN  Apply(resumeDisconnects(runSends(afterConnect(B, s), s), s))

\* connect() rejects: startSession's catch, then the suspended disconnect()
\* calls and the chained sends.
HandshakeReject(s) ==
  /\ svc[s].sock = "connecting" /\ svc[s].promise = "pending"
  /\ LET A == Begin(Cur)
         B == [A EXCEPT !.svc[s].sock = "closed", !.svc[s].promise = "rejected"]
     IN  Apply(resumeDisconnects(
                 runSends(startCatch(B, s, "handshake"), s), s))

\* The socket of s reports an error; its close event follows. An error
\* while connecting leaves the promise of connect() pending.
SocketError(s, message) ==
  /\ svc[s].sock \in {"connecting", "open"}
  /\ LET A == onError(Begin(Cur), message)
     IN  Apply([A EXCEPT !.svc[s].sock = "closing"])

\* The close event of the socket of s, after close() or from the remote end.
SocketClose(s) ==
  /\ svc[s].sock \in {"open", "closing"}
  /\ LET A == onClose(Begin(Cur))
     IN  Apply([A EXCEPT !.svc[s].sock = "closed"])

OnMessage(s, m) ==
  /\ svc[s].sock = "open"
  /\ (m.audio # 0 /\ audioAccepted(Cur, s)) => nItems < MaxChunks
  /\ Apply(onmessage([Begin(Cur) EXCEPT !.last.msg = m], s, m))

\* A message the SDK hands to onmessage after session.close() was called on
\* its session and before the close event: the widget's callbacks are the
\* same closures, and whether the SDK still calls them is its matter.
LateMessage(s, m) ==
  /\ svc[s].sock = "closing"
  /\ (m.audio # 0 /\ audioAccepted(Cur, s)) => nItems < MaxChunks
  /\ Apply(onmessage([Begin(Cur) EXCEPT !.last.msg = m], s, m))

MicAnswer(r, granted) ==
  /\ run[r].pc = "mic"
  /\ Apply(afterMic(Begin(Cur), r, granted))

SysAnswer(r, answer) ==
  /\ run[r].pc = "sys"
  /\ Apply(afterSys(Begin(Cur), r, answer))

\* A block of silence and a block of speech, two samples each.
QuietBlock == <<0, 0>>
LoudBlock == <<16385, -32768>>
Blocks == {QuietBlock, LoudBlock}

\* An onaudioprocess with a silence gate: a block of zeros is not sent.
onaudioprocess_SilenceGate(S, inputData) ==
  IF S.serviceRef # 0 /\ \E i \in 1..Len(inputData) : inputData[i] # 0
  THEN sendAudio(S, S.serviceRef, pcmPayload(inputData))
  ELSE S

\* processor.onaudioprocess: lines 279-286.
onaudioprocess(S, inputData) ==
  IF S.serviceRef # 0
  THEN sendAudio(S, S.serviceRef, pcmPayload(inputData))
  ELSE S

\* The processor of input context c delivers one block.
AudioProcess(c, inputData) ==
  /\ c \in openIn /\ proc[c] > 0
  /\ serviceRef # 0
  /\ Len(svc[serviceRef].thens) < MaxSends
  /\ Apply(onaudioprocess(Begin(Cur), inputData))

\* The output clock advances.
Tick ==
  /\ outputAudioCtxRef # 0
  /\ clock < MaxClock
  /\ Apply([Begin(Cur) EXCEPT !.clock = @ + 1])

\* A source that plays to its end without an onended handler: it stays in
\* the active set.
SourceEnded_KeepsItem(n) ==
  /\ n \in sourcesRef /\ n \in live
  /\ n.ctx = outputAudioCtxRef => clock >= n.end
  /\ Apply([Begin(Cur) EXCEPT !.live = @ \ {n}])

\* onended of a source that played to its end: line 228. The clock of a
\* context that outputAudioCtxRef no longer holds is not observed.
SourceEnded(n) ==
  /\ n \in sourcesRef
  /\ n.ctx = outputAudioCtxRef => clock >= n.end
  /\ Apply([Begin(Cur) EXCEPT !.sources = @ \ {n}, !.live = @ \ {n}])

\* A relay handler that shows the text and does not send it.
onRelayInsert_CaptionOnly(S, text) ==
  IF text # "" /\ S.serviceRef # 0
  THEN [S EXCEPT !.inputCaption = text]
  ELSE S

\* The handler of the relay subscription: lines 117-124.
onRelayInsert(S, text) ==
  IF text # "" /\ S.serviceRef # 0
  THEN sendText([S EXCEPT !.inputCaption = text], S.serviceRef, text)
  ELSE S

\* The relay subscription exists: the effect of lines 112-130 has not
\* returned at line 113 (the relay is configured).
subscribed(S) == S.role = "Listener" /\ S.isActive /\ ~S.isSamplePlaying

\* A row is inserted into the relay's table while the subscription exists.
RelayInsert(text) ==
  /\ subscribed(Cur)
  /\ serviceRef # 0 => Len(svc[serviceRef].thens) < MaxSends
  /\ Apply(onRelayInsert(Begin(Cur), text))

\* A sentence of the selected sample: lines 154-166.
SampleSentence == "Artificial intelligence"
playNextSampleSentence(S) ==
  LET A == [S EXCEPT !.inputCaption = SampleSentence]
  IN  IF A.serviceRef # 0 THEN sendText(A, A.serviceRef, SampleSentence)
      ELSE A

\* Lines 168-184, with a sample selected.
toggleSamplePlayback(S) ==
  CASE ~S.isActive -> S
    [] S.isSamplePlaying -> [S EXCEPT !.isSamplePlaying = FALSE]
    [] OTHER -> playNextSampleSentence([S EXCEPT !.isSamplePlaying = TRUE])

\* The sample button: in the Listener's panel, disabled unless isActive and
\* a sample is selected.
ToggleSample ==
  /\ role = "Listener" /\ isActive
  /\ serviceRef # 0 => Len(svc[serviceRef].thens) < MaxSends
  /\ Apply(toggleSamplePlayback(Begin(Cur)))

\* The interval timer of the playing sample fires.
SampleTimer ==
  /\ isSamplePlaying
  /\ serviceRef # 0 => Len(svc[serviceRef].thens) < MaxSends
  /\ Apply(playNextSampleSentence(Begin(Cur)))

Next ==
  \/ \E x \in Roles : SetRole(x)
  \/ ClickStart
  \/ ClickStop
  \/ \E s \in Runs : HandshakeOpen(s)
  \/ \E s \in Runs : HandshakeReject(s)
  \/ \E s \in Runs, e \in ErrorMessages : SocketError(s, e)
  \/ \E s \in Runs : SocketClose(s)
  \/ \E s \in Runs, m \in Messages : OnMessage(s, m)
  \/ \E r \in Runs, g \in BOOLEAN : MicAnswer(r, g)
  \/ \E r \in Runs, a \in {"audio", "noaudio", "declined"} : SysAnswer(r, a)
  \/ \E c \in Runs, x \in Blocks : AudioProcess(c, x)
  \/ Tick
  \/ \E n \in sourcesRef : SourceEnded(n)
  \/ \E x \in Texts : RelayInsert(x)
  \/ ToggleSample
  \/ SampleTimer

\* The widget as mounted: useState(UserRole.SPEAKER).
Init == InitAs("Speaker")

Spec == Init /\ [][Next]_vars

(***************************************************************************)
(* The session lifecycle and the capture path: the user, the sockets and   *)
(* the permission prompts, with a remote session that sends no message    *)
(* and sources that capture silence.                                       *)
(***************************************************************************)
NextLife ==
  \/ \E x \in Roles : SetRole(x)
  \/ ClickStart
  \/ ClickStop
  \/ \E s \in Runs : HandshakeOpen(s)
  \/ \E s \in Runs : HandshakeReject(s)
  \/ \E s \in Runs, e \in ErrorMessages : SocketError(s, e)
  \/ \E s \in Runs : SocketClose(s)
  \/ \E r \in Runs, g \in BOOLEAN : MicAnswer(r, g)
  \/ \E r \in Runs, a \in {"audio", "noaudio", "declined"} : SysAnswer(r, a)
  \/ \E c \in Runs : AudioProcess(c, QuietBlock)

SpecLife == Init /\ [][NextLife]_vars

(***************************************************************************)
(* The playback scheduler: a user who chose Listener before the first      *)
(* start and keeps it, and a remote session whose messages carry audio     *)
(* chunks and interruption signals.                                        *)
(***************************************************************************)
PlayMessages == {m \in Messages : ~m.inT /\ ~m.outT}

NextPlay ==
  \/ ClickStart
  \/ ClickStop
  \/ \E s \in Runs : HandshakeOpen(s)
  \/ \E s \in Runs : HandshakeReject(s)
  \/ \E s \in Runs, e \in ErrorMessages : SocketError(s, e)
  \/ \E s \in Runs : SocketClose(s)
  \/ \E s \in Runs, m \in PlayMessages : OnMessage(s, m)
  \/ Tick
  \/ \E n \in sourcesRef : SourceEnded(n)

SpecPlay == InitAs("Listener") /\ [][NextPlay]_vars

(***************************************************************************)
(* The relay: the user, the sockets, a remote session whose messages carry *)
(* transcriptions, and rows inserted into the relay's table; permission    *)
(* prompts stay unanswered.                                                *)
(***************************************************************************)
TextMessages == {m \in Messages : m.audio = 0 /\ ~m.intr}

NextRelay ==
  \/ \E x \in Roles : SetRole(x)
  \/ ClickStart
  \/ ClickStop
  \/ \E s \in Runs : HandshakeOpen(s)
  \/ \E s \in Runs : SocketClose(s)
  \/ \E s \in Runs, m \in TextMessages : OnMessage(s, m)
  \/ \E x \in Texts : RelayInsert(x)

SpecRelay == Init /\ [][NextRelay]_vars

(***************************************************************************)
(* Roles and playback: the user, who may switch the role, the sockets, and *)
(* a remote session whose messages carry audio chunks and nothing else.    *)
(***************************************************************************)
ChunkMessages == {m \in PlayMessages : ~m.intr}

NextRole ==
  \/ \E x \in Roles : SetRole(x)
  \/ ClickStart
  \/ ClickStop
  \/ \E s \in Runs : HandshakeOpen(s)
  \/ \E s \in Runs : SocketClose(s)
  \/ \E s \in Runs, m \in ChunkMessages : OnMessage(s, m)
  \/ \E n \in sourcesRef : SourceEnded(n)

SpecRole == Init /\ [][NextRole]_vars

(***************************************************************************)
(* Capture: a user who keeps the role Speaker, sockets that stay open once *)
(* the handshake is done, the permission prompts, the processor's blocks,  *)
(* quiet and loud, and the output clock.                                   *)
(***************************************************************************)
NextCapture ==
  \/ ClickStart
  \/ ClickStop
  \/ \E s \in Runs : HandshakeOpen(s)
  \/ \E r \in Runs, g \in BOOLEAN : MicAnswer(r, g)
  \/ \E r \in Runs, a \in {"audio", "noaudio", "declined"} : SysAnswer(r, a)
  \/ \E c \in Runs, x \in Blocks : AudioProcess(c, x)
  \/ Tick

SpecCapture == Init /\ [][NextCapture]_vars

(***************************************************************************)
(* Capture and playback together: the user, who may switch the role, the   *)
(* sockets, granted permission prompts, the processor's blocks, and a      *)
(* remote session whose messages carry audio chunks.                       *)
(***************************************************************************)
NextDuplex ==
  \/ \E x \in Roles : SetRole(x)
  \/ ClickStart
  \/ ClickStop
  \/ \E s \in Runs : HandshakeOpen(s)
  \/ \E r \in Runs : MicAnswer(r, TRUE)
  \/ \E r \in Runs : SysAnswer(r, "audio")
  \/ \E c \in Runs, x \in Blocks : AudioProcess(c, x)
  \/ \E s \in Runs, m \in ChunkMessages : OnMessage(s, m)

SpecDuplex == Init /\ [][NextDuplex]_vars

(***************************************************************************)
(* Playback with late messages: a Listener, the sockets, and a remote      *)
(* session whose audio chunks and interruption signals may still be        *)
(* delivered after the session was closed.                                 *)
(***************************************************************************)
NextLate ==
  \/ ClickStart
  \/ ClickStop
  \/ \E s \in Runs : HandshakeOpen(s)
  \/ \E s \in Runs : SocketClose(s)
  \/ \E s \in Runs, m \in PlayMessages : OnMessage(s, m)
  \/ \E s \in Runs, m \in PlayMessages : LateMessage(s, m)

SpecLate == InitAs("Listener") /\ [][NextLate]_vars

(***************************************************************************)
(* The relay and the sample: the user, who may switch the role and play    *)
(* the sample, the sockets, and rows inserted into the relay's table;      *)
(* permission prompts stay unanswered.                                     *)
(***************************************************************************)
NextSample ==
  \/ \E x \in Roles : SetRole(x)
  \/ ClickStart
  \/ ClickStop
  \/ \E s \in Runs : HandshakeOpen(s)
  \/ \E s \in Runs : SocketClose(s)
  \/ \E x \in Texts : RelayInsert(x)
  \/ ToggleSample
  \/ SampleTimer

SpecSample == Init /\ [][NextSample]_vars

(***************************************************************************)
(* The PCM codec alone: a frame of samples is converted to 16-bit PCM,     *)
(* encoded to base64, and decoded the way a received chunk is.             *)
(***************************************************************************)
NumChannels == 1
Samples == {-65536, -32768, -32767, -1, 0, 1, 16385, 32768, 40000}
Frames == UNION {[1..n -> Samples] : n \in 0..MaxFrame}

Quantize ==
  /\ codec.stage = "captured"
  /\ Apply([Begin(Cur) EXCEPT
              !.codec.stage = "pcm16",
              !.codec.pcm16 = [i \in 1..Len(codec.frame) |->
                                 toPcm16(codec.frame[i])]])

Encode ==
  /\ codec.stage = "pcm16"
  /\ Apply([Begin(Cur) EXCEPT
              !.codec.stage = "base64",
              !.codec.base64 = encode(pcmBytes(codec.pcm16))])

Decode ==
  /\ codec.stage = "base64"
  /\ Apply([Begin(Cur) EXCEPT
              !.codec.stage = "decoded",
              !.codec.out =
                 decodeAudioData(decode(codec.base64), NumChannels)[1]])

NextCodec == Quantize \/ Encode \/ Decode

InitCodec ==
  /\ InitWidget("Speaker")
  /\ codec \in {[NoFrame EXCEPT !.stage = "captured", !.frame = x] :
                  x \in Frames}

SpecCodec == InitCodec /\ [][NextCodec]_vars

(***************************************************************************)
(* The adapter alone: one GeminiLiveService and a driver that calls its    *)
(* methods in any order, with callbacks that do nothing. The driver        *)
(* numbers the payloads it sends.                                          *)
(***************************************************************************)
Adapter == CHOOSE s \in Runs : \A q \in Runs : s <= q

CallConnect ==
  /\ svc[Adapter].sock = "none"
  /\ Apply(connect(Begin(Cur), Adapter))

CallSendAudio ==
  /\ nSends < MaxSends
  /\ Apply(sendAudio([Begin(Cur) EXCEPT !.nSends = @ + 1], Adapter,
                     nSends + 1))

CallSendText ==
  /\ nSends < MaxSends
  /\ Apply(sendText([Begin(Cur) EXCEPT !.nSends = @ + 1], Adapter,
                    nSends + 1))

CallDisconnect ==
  /\ svc[Adapter].nDisc < MaxDisc
  /\ Apply(disconnect(Begin(Cur), Adapter))

\* The promise of connect() resolves on the open socket.
AdapterOpen ==
  /\ svc[Adapter].sock = "connecting" /\ svc[Adapter].promise = "pending"
  /\ LET A == [Begin(Cur) EXCEPT !.svc[Adapter].sock = "open",
                                 !.svc[Adapter].promise = "resolved"]
     IN  Apply(resumeDisconnects(runSends(A, Adapter), Adapter))

\* The promise of connect() rejects.
AdapterReject ==
  /\ svc[Adapter].sock = "connecting" /\ svc[Adapter].promise = "pending"
  /\ LET A == [Begin(Cur) EXCEPT !.svc[Adapter].sock = "closed",
                                 !.svc[Adapter].promise = "rejected"]
     IN  Apply(resumeDisconnects(runSends(A, Adapter), Adapter))

\* The socket closes, after close() or from the remote end.
AdapterClose ==
  /\ svc[Adapter].sock \in {"open", "closing"}
  /\ Apply([Begin(Cur) EXCEPT !.svc[Adapter].sock = "closed"])

NextAdapter ==
  \/ CallConnect
  \/ CallSendAudio
  \/ CallSendText
  \/ CallDisconnect
  \/ AdapterOpen
  \/ AdapterReject
  \/ AdapterClose

SpecAdapter == Init /\ [][NextAdapter]_vars

(***************************************************************************)
(* Properties                                                              *)
(***************************************************************************)
\* A startSession invocation that can still resume: it awaits a handshake
\* that can still complete, or a permission prompt.
InFlight(r) ==
  \/ run[r].pc \in {"mic", "sys"}
  \/ run[r].pc = "connect" /\ svc[r].sock = "connecting"

\* The session of the latest start request has not been stopped: its
\* service was neither disconnected nor failed.
SessionRunning ==
  /\ nRuns > 0
  /\ svc[nRuns].promise \in {"pending", "resolved"}
  /\ svc[nRuns].nDisc = 0
  /\ isConnecting \/ isActive

Enq == last.enq[1]
Enqueued == last.enq # <<>>
Followed == Enqueued /\ Enq.before # <<>>
InterruptOnly == [NoMessage EXCEPT !.intr = TRUE]

\* C1: at most one session at a time: when startSession begins, no earlier
\* invocation of it is still in flight, so no invocation but the latest
\* ever is.
C1_OneSessionAtATime ==
  \A r \in Runs : InFlight(r) => r = nRuns

\* C2: while the session of the latest start request is a Listener's and
\* runs, no step requests a capture source, creates an input audio context
\* or calls sendAudio, and no input audio context exists.
C2_ListenerNeverCaptures ==
  (SessionRunning /\ run[nRuns].role = "Listener") =>
    /\ last.acquire = 0
    /\ last.newInCtx = 0
    /\ last.sendAudio = 0
    /\ inputAudioCtxRef = 0

\* C3: the role changes only while the session is Idle: no step taken while
\* the session is connecting or active changes it.
C3_RoleFixedUnlessIdle ==
  [][(isConnecting \/ isActive) => role' = role]_vars

\* C4: within one playback epoch an item starts at or after the start and
\* at or after the end of the item scheduled before it.
C4_NoOverlapInEpoch ==
  Followed => /\ Enq.start >= Enq.before[1].end
              /\ Enq.start >= Enq.before[1].start
              /\ Enq.end > Enq.start

C4_Witness == Followed /\ Enq.at > 0 /\ Enq.before[1].end > Enq.at

\* C5 as stated: an item starts exactly at the end of the item before it.
C5_GapFree ==
  Followed => Enq.start = Enq.before[1].end

\* C5 as amended: an item starts at the end of the item before it unless the
\* output clock has passed that end when it is enqueued, and then it starts
\* at the clock.
C5_GapOnlyAfterUnderrun ==
  Followed => Enq.start = Max(Enq.before[1].end, Enq.at)

C5_Witness == Followed /\ Enq.at > Enq.before[1].end

\* C6: the first chunk enqueued after a flush caused by an interruption
\* starts at the output clock time of that enqueue.
C6_FirstAfterInterruptionAtClock ==
  (Enqueued /\ Enq.before = <<>> /\ epoch = "interrupt") =>
    Enq.start = Enq.at

\* C7: an enqueue starts the chunk at the larger of the output clock and
\* the last scheduled end time, and sets the last scheduled end time to
\* that start plus the chunk's duration.
C7_EnqueueAtMaxThenAdvance ==
  Enqueued => /\ Enq.start = Max(Enq.at, Enq.next)
              /\ nextStartTimeRef = Enq.start + Enq.dur

\* Three chunks of one unit (500 ms) enqueued at clock 0: starts 0, 1, 2.
C7_Witness ==
  /\ Enqueued /\ Enq.at = 0 /\ clock = 0
  /\ {<<n.start, n.end>> : n \in sourcesRef} = {<<0, 1>>, <<1, 2>>, <<2, 3>>}

\* C8: a flush stops every node of the active set and takes all of them out
\* of it, and a node that is not playing or scheduled never is again.
C8_FlushStopsActiveSet ==
  [][/\ last'.flushes > 0 =>
          /\ sourcesRef \cap live' = {}
          /\ \A n \in sourcesRef' : n.id > nItems
     /\ \A n \in live' : n \in live \/ n.id > nItems]_vars

\* A flush that took a playing node and a node scheduled for later.
C8_Witness == last.flushes > 0 /\ last.flushed >= 2 /\ live = {}

\* C9: a step flushes once for the interruption signal it handles and once
\* for each stopSession it runs, and not otherwise; a flush for an
\* interruption on an empty active set changes nextStartTimeRef to the
\* clock of the output context, if there is one, and nothing else.
C9_OneFlushPerInterruption ==
  /\ [](last.flushes = (IF last.msg.intr THEN 1 ELSE 0) + last.stops)
  /\ [][(last'.msg = InterruptOnly /\ sourcesRef = {}) =>
          /\ nextStartTimeRef' = IF outputAudioCtxRef # 0 THEN clock
                                 ELSE nextStartTimeRef
          /\ sourcesRef' = {}
          /\ UNCHANGED <<role, isActive, isConnecting, error, inputCaption,
                         outputCaption, serviceRef, outputAudioCtxRef,
                         inputAudioCtxRef, activeStreamsRef, nRuns, run,
                         svc, clock, nItems, live, openOut, openIn, proc>>
       ]_vars

C9_Witness ==
  /\ last.msg = InterruptOnly /\ last.flushes = 1 /\ last.flushed = 0
  /\ clock > 0 /\ nextStartTimeRef = clock

\* What stopSession releases, and the flags it clears.
Released(S) ==
  [isActive |-> S.isActive, isConnecting |-> S.isConnecting,
   sources |-> S.sources, live |-> S.live, nextStart |-> S.nextStart,
   streams |-> S.streams, inCtx |-> S.inCtx, outCtx |-> S.outCtx,
   openIn |-> S.openIn, openOut |-> S.openOut]

\* C10: stopSession raises no error in any state (no disconnect() it calls
\* ends in a rejection), leaves the session Idle, and a second call leaves
\* what the first released as it is.
C10_StopIdempotentAndSafe ==
  /\ last.discRej = 0
  /\ last.stops > 0 => ~isActive /\ ~isConnecting
  /\ Released(stopSession(stopSession(Cur))) = Released(stopSession(Cur))

\* The session is Idle after a stopSession and no startSession invocation
\* can still resume.
Settled ==
  /\ nRuns > 0
  /\ ~isActive /\ ~isConnecting
  /\ \A r \in Runs : ~InFlight(r)

\* C11: once stopSession has run and every continuation of startSession has
\* run, no capture stream has a live track, no audio context is open, the
\* active set is empty and no service holds an open session.
C11_StopReleasesEverything ==
  Settled =>
    /\ activeStreamsRef = {} /\ orphanTracks = {}
    /\ openIn = {} /\ openOut = {}
    /\ sourcesRef = {} /\ live = {}
    /\ \A s \in Runs : svc[s].sock # "open"

\* The teardown of the session of service s has begun: stopSession called
\* disconnect() on it, or a later startSession replaced it in serviceRef.
TornDown(s) ==
  /\ s <= nRuns
  /\ \/ s # serviceRef
     \/ svc[s].nDisc > 0
     \/ svc[s].promise = "null"

\* A socket event of service s: onopen, onerror or onclose.
SocketCallback(s) ==
  \/ HandshakeOpen(s)
  \/ \E e \in ErrorMessages : SocketError(s, e)
  \/ SocketClose(s)

\* C12: a callback of a session whose teardown has begun is a no-op: it
\* leaves no rejection unhandled, requests no capture source, creates no
\* audio context, leaves the flags and the error as they are, and leaves
\* the service of a session started afterwards as it is.
C12_StaleCallbackIsNoOp ==
  [][\A s \in Runs :
       (TornDown(s) /\ SocketCallback(s)) =>
          /\ last'.discRej = 0
          /\ last'.acquire = 0 /\ last'.newInCtx = 0
          /\ openOut' \subseteq openOut /\ openIn' \subseteq openIn
          /\ isActive' = isActive /\ isConnecting' = isConnecting
          /\ error' = error
          /\ serviceRef # s => svc'[serviceRef] = svc[serviceRef]]_vars

\* C13: when the socket of the current session reports an error or closes,
\* stopSession runs in that step and leaves the session Idle; for an error
\* the error string is the reported message ('Network error' without one).
C13_ErrorOrCloseForcesStop ==
  [][\A s \in Runs :
       (s = serviceRef /\ ~TornDown(s)) =>
          /\ \A e \in ErrorMessages :
               SocketError(s, e) =>
                 /\ last'.stops >= 1
                 /\ ~isActive' /\ ~isConnecting'
                 /\ error' = IF e = "" THEN "Network error" ELSE e
          /\ SocketClose(s) =>
               /\ last'.stops >= 1
               /\ ~isActive' /\ ~isConnecting']_vars

\* The socket of an active first session has reported "reset".
C13_Witness ==
  /\ nRuns = 1 /\ svc[1].sock = "closing" /\ svc[1].promise = "null"
  /\ last.stops = 1 /\ error = "reset"
  /\ ~isActive /\ ~isConnecting

\* C14: a failed handshake leaves the session Idle with an error, without a
\* capture stream, an audio context or a playback node, and leaves the
\* service without a session promise and without an unhandled rejection.
C14_FailedHandshakeLeavesNothing ==
  [][\A s \in Runs :
       (s = serviceRef /\ ~TornDown(s) /\ HandshakeReject(s)) =>
          /\ ~isActive' /\ ~isConnecting' /\ error' # "null"
          /\ last'.acquire = 0 /\ last'.newInCtx = 0
          /\ activeStreamsRef' = {} /\ openIn' = {} /\ openOut' = {}
          /\ sourcesRef' = {}
          /\ svc'[s].promise = "null"
          /\ last'.discRej = 0]_vars

\* C18: while the handshake of a Speaker's session is pending, and after it
\* has failed, no step requests a capture source or calls sendAudio.
C18_CaptureOnlyAfterHandshake ==
  (/\ nRuns > 0
   /\ run[nRuns].role = "Speaker"
   /\ \/ SessionRunning /\ svc[nRuns].promise = "pending"
      \/ svc[nRuns].promise = "rejected") =>
    /\ last.acquire = 0
    /\ last.sendAudio = 0

\* C15: a payload reaches the remote session only if its sendAudio or
\* sendText was called while the socket was open, and no send leaves a
\* rejection unhandled.
C15_SendsOutsideOpenDropped ==
  /\ \A i \in DOMAIN last.sent : last.sent[i].at = "open"
  /\ last.sendRej = 0

\* The number the driver gave the payload: the position of its call among
\* the sendAudio and sendText calls.
PayloadId(p) == IF p.kind = "audio" THEN p.data ELSE p.data[2]

\* C16: payloads reach the remote session in the order of their calls, each
\* at most once: every payload transmitted was sent by a later call than
\* the payload transmitted before it.
C16_SendsInCallOrder ==
  \A i \in DOMAIN last.sent :
    LET e == last.sent[i]
    IN  e.prev # <<>> => PayloadId(e.prev[1]) < PayloadId(e.p)

\* Audio and text chained on the pending promise go out when it resolves.
C16_Witness ==
  /\ Len(last.sent) >= 2
  /\ last.sent[1].p.kind # last.sent[2].p.kind
  /\ last.sent[1].at = "connecting"

\* C17: disconnect() never ends in a rejection; on a service without a
\* session promise it changes nothing, and on an open one it starts the
\* close of the socket.
C17_DisconnectIdempotent ==
  /\ [](last.discRej = 0)
  /\ [][CallDisconnect =>
          /\ svc[Adapter].promise = "null" => svc' = svc
          /\ svc[Adapter].sock = "open" =>
               svc'[Adapter].sock = "closing"]_vars

\* C19: with the subscription of an active Listener, the handler of an
\* inserted non-empty text calls sendText once, with that text, and makes
\* it the input caption.
C19_RelayTextSentOnce ==
  [][\A x \in Texts \ {""} :
       RelayInsert(x) => /\ last'.sendText = <<x>>
                         /\ inputCaption' = x]_vars

\* "Hola" arrives in an active Listener session and goes to the remote
\* session.
C19_Witness ==
  /\ role = "Listener" /\ isActive
  /\ last.sendText = <<"Hola">> /\ inputCaption = "Hola"
  /\ Len(last.sent) = 1
  /\ last.sent[1].p = [kind |-> "text", data |-> <<"Interpret: ", "Hola">>]

\* C20: an input transcription of the current session is inserted into the
\* relay once when the role is Speaker and not at all when it is Listener.
C20_PublishedIffSpeaker ==
  [][\A s \in Runs, m \in TextMessages :
       (s = serviceRef /\ m.inT /\ OnMessage(s, m)) =>
          last'.published = IF role = "Speaker" THEN 1 ELSE 0]_vars

\* C29: once a message's interruption signal has been processed, no chunk
\* delivered up to it is started or left in the active set: the step that
\* handled a message carrying the signal scheduled no chunk and ends with
\* an empty active set, also when the same message carried a chunk whose
\* decode was still to finish.
C29_NothingSurvivesInterruption ==
  last.msg.intr => ~Enqueued /\ sourcesRef = {}

\* C30: playback items are scheduled in the order their chunks arrived: the
\* task that delivers a chunk the widget accepts schedules that chunk
\* before any later message is handled, as the next node of the output
\* graph, with the chunk's duration, and no earlier than the end of the
\* item scheduled before it in the same epoch.
C30_ScheduledInArrivalOrder ==
  [][\A s \in Runs, m \in PlayMessages :
       (OnMessage(s, m) /\ m.audio # 0 /\ audioAccepted(Cur, s)) =>
         /\ nItems' = nItems + 1
         /\ last'.enq # <<>> /\ last'.enq[1].dur = m.audio
         /\ \E n \in sourcesRef' :
              /\ n.id = nItems'
              /\ n.end - n.start = m.audio
              /\ \A o \in sourcesRef' : o.id < n.id => o.end <= n.start
         /\ (sched # <<>> /\ ~m.intr) => last'.enq[1].start >= sched[1].end
    ]_vars

\* A chunk of two units followed by a chunk of one unit, in that order.
C30_Witness ==
  /\ Followed /\ Enq.dur = 1
  /\ \E a, b \in sourcesRef :
       /\ a.id + 1 = b.id /\ b.id = nItems
       /\ a.end - a.start = 2 /\ b.start = a.end /\ b.end - b.start = 1

Dist(a, b) == IF a >= b THEN a - b ELSE b - a
InRange(x) == -Int16Divisor <= x /\ x <= Int16Divisor

\* C25: encoding a frame of samples in [-1, 1] given to 16-bit precision and
\* decoding the resulting base64 string gives a frame of the same length
\* whose samples are each within one quantization step of the original.
C25_RoundTripWithinOneStep ==
  (codec.stage = "decoded" /\ \A i \in 1..Len(codec.frame) :
                                 InRange(codec.frame[i])) =>
    /\ Len(codec.out) = Len(codec.frame)
    /\ \A i \in 1..Len(codec.frame) : Dist(codec.out[i], codec.frame[i]) <= 1

\* A decoded frame with a negative sample, the full-scale sample and zero.
C25_Witness ==
  /\ codec.stage = "decoded"
  /\ codec.frame = <<-32767, 32768, 0>>
  /\ codec.out = <<-32766, 32767, 0>>

\* C26: encoding clamps each sample to [-1, 1] before scaling by 32767: every
\* 16-bit value is between -32767 and 32767, has the sign of its sample,
\* and is full scale for a sample at or beyond the range.
C26_ClampedNeverWraps ==
  codec.stage # "captured" =>
    /\ Len(codec.pcm16) = Len(codec.frame)
    /\ \A i \in 1..Len(codec.frame) :
         LET x == codec.frame[i]
             v == codec.pcm16[i]
         IN  /\ -Int16Scale <= v /\ v <= Int16Scale
             /\ x >= 0 => v >= 0
             /\ x <= 0 => v <= 0
             /\ x >= Int16Divisor => v = Int16Scale
             /\ x <= -Int16Divisor => v = -Int16Scale

\* A frame with samples beyond the range on both sides.
C26_Witness ==
  /\ codec.stage = "pcm16"
  /\ codec.frame = <<40000, -65536>>
  /\ codec.pcm16 = <<32767, -32767>>

\* The startSession invocation r is the session that runs, awaiting the
\* answer of a permission prompt on its own input context.
Capturing(r) == r = nRuns /\ SessionRunning /\ inputAudioCtxRef = r
OwnStreams(r, streams) == {st \in streams : st[1] = r}

\* C22: in a Speaker session a capture source that is declined or fails
\* while the other is granted does not end the session: the step of the
\* refused microphone goes on to the system-audio request, and the step of
\* the second answer, with exactly one source granted, leaves the session
\* active without an error, holding the granted stream alone, with its
\* processor attached to the open input context and its socket open.
C22_OneSourceSuffices ==
  [][/\ \A r \in Runs :
          (MicAnswer(r, FALSE) /\ Capturing(r)) =>
            /\ isActive' /\ error' = error /\ last'.stops = 0
            /\ run'[r].pc = "sys" /\ inputAudioCtxRef' = r
     /\ \A r \in Runs, a \in {"audio", "declined"} :
          (/\ SysAnswer(r, a) /\ Capturing(r)
           /\ (<<r, "mic">> \in activeStreamsRef) # (a = "audio")) =>
            /\ isActive' /\ error' = error /\ last'.stops = 0
            /\ SessionRunning'
            /\ OwnStreams(r, activeStreamsRef') =
                 {IF a = "audio" THEN <<r, "sys">> ELSE <<r, "mic">>}
            /\ r \in openIn' /\ proc'[r] = proc[r] + 1
            /\ svc'[r].sock = "open"
    ]_vars

\* The microphone was refused, the system audio granted, and a block of
\* speech has gone out to the remote session.
C22_Witness ==
  /\ SessionRunning /\ isActive /\ error = "null"
  /\ run[nRuns].pc = "done"
  /\ activeStreamsRef = {<<nRuns, "sys">>}
  /\ last.sendAudio = 1
  /\ Len(last.sent) = 1 /\ last.sent[1].p.data = pcmPayload(LoudBlock)

\* C23: in a Speaker session whose capture sources are all refused the
\* start fails: the step of the last refusal reports an error and leaves
\* the session Idle with every resource released.
C23_NoSourceIsFatal ==
  [][\A r \in Runs :
       (/\ SysAnswer(r, "declined") /\ Capturing(r)
        /\ <<r, "mic">> \notin activeStreamsRef) =>
         /\ ~isActive' /\ ~isConnecting'
         /\ error' # "null"
         /\ inputAudioCtxRef' = 0 /\ outputAudioCtxRef' = 0
         /\ r \notin openIn'
    ]_vars

\* C24: every block the processor delivers produces exactly one sendAudio
\* call, whatever its energy and however many sources are granted; on the
\* open socket of the running session the call transmits the block's
\* encoded chunk, one payload per block.
C24_OneSendPerBlock ==
  [][\A c \in Runs, x \in Blocks :
       AudioProcess(c, x) =>
         /\ last'.sendAudio = 1
         /\ (/\ SessionRunning /\ svc[serviceRef].promise = "resolved"
             /\ svc[serviceRef].sock = "open") =>
              /\ Len(last'.sent) = 1
              /\ last'.sent[1].svc = serviceRef
              /\ last'.sent[1].p =
                   [kind |-> "audio", data |-> pcmPayload(x)]
    ]_vars

\* A block of silence sent while both sources are granted.
C24_Witness ==
  /\ SessionRunning /\ isActive
  /\ activeStreamsRef = {<<nRuns, "mic">>, <<nRuns, "sys">>}
  /\ last.sendAudio = 1
  /\ Len(last.sent) = 1 /\ last.sent[1].p.data = pcmPayload(QuietBlock)

\* The block's RMS is above 0.015: the mean of the squares is above
\* (0.015 * 32768)^2 = 241591.9104 in the samples' units.
RECURSIVE SumSq(_)
SumSq(x) == IF x = <<>> THEN 0 ELSE x[1] * x[1] + SumSq(Tail(x))
RmsAboveThreshold(x) ==
  /\ x # <<>>
  /\ SumSq(x) > 241591 * Len(x) + (9104 * Len(x)) \div 10000

\* C27: when the captured input becomes active, a block whose RMS is above
\* the threshold, all playing and scheduled translation audio is stopped at
\* once and the schedule is re-based to the clock of the output context.
C27_InputActivityFlushes ==
  [][\A c \in Runs, x \in Blocks :
       (AudioProcess(c, x) /\ RmsAboveThreshold(x)) =>
         /\ sourcesRef' = {}
         /\ live' \cap sourcesRef = {}
         /\ outputAudioCtxRef # 0 => nextStartTimeRef' = clock
    ]_vars

\* C28: the activity detector reports active as soon as a frame's RMS is
\* above 0.015, and inactive only after 2500 ms without such a frame. A
\* detector that holds its answer has to remember it, so the first block
\* of a session to be captured, when its RMS is above the threshold, turns
\* the reported activity from false to true: it changes something the
\* widget keeps, beyond the payload handed to the service.
C28_LoudBlockReportsActivity ==
  [][\A c \in Runs, x \in Blocks :
       (/\ AudioProcess(c, x) /\ RmsAboveThreshold(x)
        /\ Capturing(c) /\ run[c].pc = "done"
        /\ svc[c].lastSent = <<>>) =>
         ~UNCHANGED <<role, isActive, isConnecting, error, inputCaption,
                      outputCaption, serviceRef, outputAudioCtxRef,
                      inputAudioCtxRef, sourcesRef, nextStartTimeRef,
                      activeStreamsRef>>
    ]_vars

\* C35: the connecting flag and the active flag are never both true: a
\* start sets the connecting flag and leaves the active flag false, a
\* completed handshake clears the connecting flag and sets the active flag,
\* and a step that ran stopSession ends with both flags false.
C35_ConnectingExcludesActive ==
  /\ [](~(isConnecting /\ isActive))
  /\ [][/\ ClickStart => isConnecting' /\ ~isActive'
        /\ \A s \in Runs : HandshakeOpen(s) => ~isConnecting' /\ isActive'
        /\ last'.stops > 0 => ~isConnecting' /\ ~isActive'
       ]_vars

\* The second session, active after its handshake.
C35_Witness ==
  /\ nRuns = 2 /\ isActive /\ ~isConnecting
  /\ svc[2].promise = "resolved" /\ svc[2].sock = "open"
  /\ last.stops = 0 /\ last.newInCtx = 1

\* C31: the active set holds exactly the nodes that were started and have
\* neither played to their end nor been stopped by a flush: a node enters
\* it in the step that schedules it and only then, leaves it when its
\* playback ends or a flush takes it, and never enters it again.
C31_ActiveSetIsWhatPlays ==
  /\ [](sourcesRef = live)
  /\ [][/\ \A n \in sourcesRef' \ sourcesRef :
             /\ last'.enq # <<>>
             /\ n.id = nItems + 1 /\ nItems' = n.id
             /\ n.start = last'.enq[1].start /\ n.end = last'.enq[1].end
        /\ last'.enq # <<>> => \E n \in sourcesRef' : n.id = nItems'
        /\ \A n \in sourcesRef : SourceEnded(n) => sourcesRef' = sourcesRef \ {n}
        /\ sourcesRef \ sourcesRef' # {} =>
             \/ last'.flushes > 0
             \/ \E n \in sourcesRef : SourceEnded(n)
       ]_vars

\* The first of two chunks has played to its end, without any flush, and
\* the second is the active set.
C31_Witness ==
  /\ epoch = "init" /\ nItems = 2 /\ last = NoEvent
  /\ \E n \in sourcesRef : sourcesRef = {n} /\ n.id = 2 /\ n.end > clock

\* C32: an audio chunk that arrives while no output audio context exists is
\* dropped: the step creates no node, raises no error and stops nothing,
\* and the chunk leaves the active set and nextStartTimeRef as they are
\* (an interruption signal in the same message still flushes).
C32_ChunkWithoutContextIsDropped ==
  [][\A s \in Runs, m \in PlayMessages :
       (/\ OnMessage(s, m) \/ LateMessage(s, m)
        /\ m.audio # 0 /\ outputAudioCtxRef = 0) =>
         /\ last'.enq = <<>>
         /\ UNCHANGED <<nItems, live, nextStartTimeRef, outputAudioCtxRef>>
         /\ UNCHANGED <<error, isActive, isConnecting>>
         /\ last'.stops = 0
         /\ sourcesRef' = IF m.intr THEN {} ELSE sourcesRef
    ]_vars

\* A chunk was played, the session was stopped, and a chunk that arrived
\* afterwards was dropped.
C32_Witness ==
  /\ last.msg.audio # 0 /\ ~last.msg.intr
  /\ outputAudioCtxRef = 0 /\ ~isActive
  /\ nItems = 1 /\ last.enq = <<>> /\ sourcesRef = {}
  /\ error = "null"

\* C33: relay text reaches the widget only while the role is Listener, the
\* session is active and no sample is playing: a row inserted into the
\* relay is forwarded to sendText or shown as the input caption only then,
\* and never once the session of the latest start request was stopped.
C33_RelayOnlyForActiveListener ==
  [][\A x \in Texts :
       (RelayInsert(x) /\ (last'.sendText # <<>> \/ inputCaption' # inputCaption))
         => /\ role = "Listener" /\ isActive /\ ~isSamplePlaying
            /\ SessionRunning
    ]_vars

\* a comes before b wherever both occur in the teardown log.
Before(log, a, b) ==
  \A i, j \in DOMAIN log : (log[i] = a /\ log[j] = b) => i < j

\* C34: stop() tears down in reverse dependency order. In a step that stops
\* the session once, the remote session is closed (when the service holds a
\* connected one) before the playback scheduler is flushed, the flush comes
\* before the release of the capture streams and audio contexts, and the
\* release before the flags are reset and the relay subscription goes.
C34_TeardownInReverseDependencyOrder ==
  [][last'.stops = 1 =>
       /\ (serviceRef # 0 /\ svc[serviceRef].promise = "resolved")
             => \E i \in DOMAIN last'.teardown : last'.teardown[i] = "close"
       /\ Before(last'.teardown, "close", "flush")
       /\ Before(last'.teardown, "flush", "release")
       /\ Before(last'.teardown, "release", "idle")
    ]_vars

====
